---- MODULE Spec2Model ----
(***************************************************************************)
(* Model of scripts/eval_matrix.py: the evaluation of a matrix of role     *)
(* occurrence counts against one pretrained predictor per role.            *)
(*                                                                         *)
(* A numpy array is a record [shape, data]: shape is the tuple of          *)
(* dimensions, data the elements in row-major order.  Indices into arrays  *)
(* are 0-based, as in the source.  A percentage is kept exactly, as the    *)
(* fraction [num, den]; a number written to a file is kept as its value    *)
(* in hundredths.                                                          *)
(***************************************************************************)
EXTENDS Integers, Sequences, FiniteSets, TLC

\* ----- bounds of the model ------------------------------------------------
MaxG == 2
MaxR == 3
MaxCells == 4
MaxCount == 1
MaxRuns == 2
MaxScoreCount == 2

\* ----- labels used in the input files ---------------------------------------
GenomeIds == <<"G1", "G2", "G3", "G4">>
RoleIds == <<"A", "B", "C", "D", "E">>
IndexText == <<"0", "1", "2", "3", "4">>

VARIABLES
    testDir,       \* args.testDir: [valid, X, rowh, colh], the files as lines of fields
    predictors,    \* args.trainDir: predictors[c+1] is what clf.predict returns for role c
    outDirExists,  \* os.path.isdir(args.outDir)
    outFiles,      \* the <genomeID>.out files of outDir: name -> lines
    summaryOut,    \* <testDir>/summary.out: [exists, lines]
    pc,            \* position of the run in the script
    exitCode,      \* <<>> while running, <<status>> once the process has ended
    X_all, col_names, genomes,
    ret,           \* results returned so far by run_predictor: n_col -> list
    predictions,   \* the list returned by Parallel, then the reassembled array
    coarse_const, fine_const, score_table,
    n_row, all_summary,
    atStart,       \* outDirExists, outFiles and summaryOut when the run began
    runs           \* evaluations completed so far

vars == <<testDir, predictors, outDirExists, outFiles, summaryOut, pc, exitCode,
          X_all, col_names, genomes, ret, predictions, coarse_const, fine_const,
          score_table, n_row, all_summary, atStart, runs>>

inputVars == <<testDir, predictors>>
fileVars == <<outDirExists, outFiles, summaryOut>>
loadVars == <<X_all, col_names, genomes>>
scoreVars == <<coarse_const, fine_const, score_table>>
loopVars == <<n_row, all_summary>>

\* ----- arrays ----------------------------------------------------------------
NoArray == [shape |-> <<0>>, data |-> <<>>]

\* the row and the column of the k-th element of an array of cols columns
RowAt(k, cols) == (k - 1) \div cols
ColAt(k, cols) == (k - 1) % cols

At(A, i, j) == A.data[i * A.shape[2] + j + 1]

NDim(A) == Len(A.shape)

\* np.squeeze: every dimension of length 1 is dropped
Squeeze(shape) == SelectSeq(shape, LAMBDA d : d # 1)

\* np.genfromtxt(file, delimiter='\t'): the lines of fields as an array, squeezed
GenFromTxt(lines) ==
    LET rows == Len(lines)
        cols == Len(lines[1])
    IN  [shape |-> Squeeze(<<rows, cols>>),
         data |-> [k \in 1..(rows * cols) |->
                     lines[RowAt(k, cols) + 1][ColAt(k, cols) + 1]]]

\* A.reshape(1, -1)
Reshape(A) == [shape |-> <<1, Len(A.data)>>, data |-> A.data]

\* if len(A.shape) != 2: A = A.reshape(1,-1)
Normalize2D(A) == IF NDim(A) # 2 THEN Reshape(A) ELSE A

\* np.asarray(list of equally long lists)
AsArray(L) ==
    LET rows == Len(L)
        cols == Len(L[1])
    IN  [shape |-> <<rows, cols>>,
         data |-> [k \in 1..(rows * cols) |-> L[RowAt(k, cols) + 1][ColAt(k, cols) + 1]]]

Transpose(A) ==
    LET rows == A.shape[2]
        cols == A.shape[1]
    IN  [shape |-> <<rows, cols>>,
         data |-> [k \in 1..(rows * cols) |-> At(A, ColAt(k, cols), RowAt(k, cols))]]

\* A[-1]
LastRow(A) == [j \in 1..A.shape[2] |-> At(A, A.shape[1] - 1, j - 1)]

\* np.delete(A, -1, axis=0)
DeleteLastRow(A) ==
    [shape |-> <<A.shape[1] - 1, A.shape[2]>>,
     data |-> SubSeq(A.data, 1, (A.shape[1] - 1) * A.shape[2])]

\* A[:, ind]
TakeCols(A, ind) ==
    LET rows == A.shape[1]
        cols == Len(ind)
    IN  [shape |-> <<rows, cols>>,
         data |-> [k \in 1..(rows * cols) |->
                     At(A, RowAt(k, cols), ind[ColAt(k, cols) + 1])]]

\* ----- the steps of the script -------------------------------------------------
ProgramMut ==
    <<"check", "load", "mkdir", "parallel", "collect", "reassemble", "score",
      "write", "summary", "done">>
Program ==
    <<"check", "load", "parallel", "collect", "reassemble", "score", "mkdir",
      "write", "summary", "done">>

After(label) ==
    LET k == CHOOSE i \in 1..Len(Program) : Program[i] = label IN Program[k + 1]

\* sys.exit(-1)
ExitStatus == -1

\* os.path.isdir(args.testDir)
IsDirMut(dir) == TRUE
IsDir(dir) == dir.valid

\* ----- run_predictor -------------------------------------------------------------
NumTasks == X_all.shape[2]

\* results = clf.predict(X_feat).tolist(); results.append(n_col)
Tagged(values, n_col) == values \o <<n_col>>

\* ----- reassembly ---------------------------------------------------------------
Reassemble(L) ==
    LET T == Transpose(AsArray(L))
        col_ind == LastRow(T)
    IN  TakeCols(DeleteLastRow(T), col_ind)

\* ----- consistency scores ---------------------------------------------------------
Cols(A) == 0..(A.shape[2] - 1)

\* 100.0 * np.mean(row of booleans)
Pct(count, n) == [num |-> 100 * count, den |-> n]

\* (X_all > 0) == (predictions > 0), one element
PresentAgree(x, p) == (x > 0) = (p > 0)

\* X_all == predictions, one element
ExactAgreeMut(x, p) == x >= p
ExactAgree(x, p) == x = p

CoarseConst(X, P) ==
    [i \in 1..X.shape[1] |->
        Pct(Cardinality({j \in Cols(X) : PresentAgree(At(X, i - 1, j), At(P, i - 1, j))}),
            X.shape[2])]

FineConst(X, P) ==
    [i \in 1..X.shape[1] |->
        Pct(Cardinality({j \in Cols(X) : ExactAgree(At(X, i - 1, j), At(P, i - 1, j))}),
            X.shape[2])]

RECURSIVE Pow10(_)
Pow10(d) == IF d = 0 THEN 1 ELSE 10 * Pow10(d - 1)

\* np.round(q, decimals): the nearest multiple of 10^-decimals, ties to even,
\* counted in units of 10^-decimals
Round(q, decimals) ==
    LET n == q.num * Pow10(decimals)
        lo == n \div q.den
        rest == n % q.den
    IN  IF 2 * rest < q.den THEN lo
        ELSE IF 2 * rest > q.den THEN lo + 1
        ELSE IF lo % 2 = 0 THEN lo ELSE lo + 1

\* the value of the number as written, in hundredths
Written(q, decimals) == Round(q, decimals) * Pow10(2 - decimals)

ScoreTable(G, coarse, fine) ==
    [i \in 1..G.shape[1] |->
        <<At(G, i - 1, 1), Written(coarse[i], 2), Written(fine[i], 2)>>]

\* ----- report lines -----------------------------------------------------------------
HeaderLine(label, num) == [text |-> label, num |-> num]

\* col_names[n_col,1] \t str(int(predictions[n_row,n_col])) \t str(int(X_all[n_row,n_col]))
MismatchLineMut(role, pred, real) == [role |-> role, pred |-> real, real |-> pred]
MismatchLine(role, pred, real) == [role |-> role, pred |-> pred, real |-> real]

SummaryLine(id, coarseNum, fineNum) == [id |-> id, coarse |-> coarseNum, fine |-> fineNum]

\* n_pred != n_real
DiffersMut(n_pred, n_real) == n_pred > n_real
Differs(n_pred, n_real) == n_pred # n_real

\* the loop "for n_col in range(X_all.shape[1])" from column n_col on
RECURSIVE MismatchLines(_, _, _, _, _)
MismatchLines(X, P, names, row, col) ==
    IF col >= X.shape[2] THEN <<>>
    ELSE (IF Differs(At(P, row, col), At(X, row, col))
          THEN <<MismatchLine(At(names, col, 1), At(P, row, col), At(X, row, col))>>
          ELSE <<>>)
         \o MismatchLines(X, P, names, row, col + 1)

\* open(file, 'ab') then write
AppendModeMut(old, new) == new
AppendMode(old, new) == old \o new

\* np.savetxt(filename, ...): the file is opened for writing
WriteModeMut(old, new) == old \o new
WriteMode(old, new) == new

Content(files, name) == IF name \in DOMAIN files THEN files[name] ELSE <<>>

\* ----- inputs ---------------------------------------------------------------------------
Counts == 0..MaxCount

Shapes == {s \in (1..MaxG) \X (1..MaxR) : s[1] * s[2] <= MaxCells}

RowLabels(g) == [i \in 1..g |-> <<IndexText[i], GenomeIds[i]>>]
ColLabels(r) == [j \in 1..r |-> <<IndexText[j], RoleIds[j]>>]

ValidDir(m) ==
    [valid |-> TRUE, X |-> m, rowh |-> RowLabels(Len(m)), colh |-> ColLabels(Len(m[1]))]

MissingDir == [valid |-> FALSE, X |-> <<>>, rowh |-> <<>>, colh |-> <<>>]

PriorLine == [prior |-> "completeness"]
StaleLine == SummaryLine("stale", 0, 0)

NoSummary == [exists |-> FALSE, lines |-> <<>>]

Snapshot == [outDirExists |-> outDirExists, outFiles |-> outFiles, summaryOut |-> summaryOut]

\* the state of a process that has just been started
Fresh ==
    /\ pc = "check"
    /\ exitCode = <<>>
    /\ X_all = NoArray /\ col_names = NoArray /\ genomes = NoArray
    /\ ret = <<>>
    /\ predictions = <<>>
    /\ coarse_const = <<>> /\ fine_const = <<>> /\ score_table = <<>>
    /\ n_row = 0 /\ all_summary = <<>>

\* what the caller and an earlier evaluation may have left on disk: nothing, an
\* empty outDir, or an outDir with completeness data for the genomes, or for the
\* first of them, together with an old summary.out in testDir
InitFiles(names) ==
    \E present \in {{}, names, {GenomeIds[1]} \cap names} :
        /\ outDirExists \in (IF present = {} THEN BOOLEAN ELSE {TRUE})
        /\ outFiles = [g \in present |-> <<PriorLine>>]
        /\ summaryOut = IF present = {} \/ ~testDir.valid
                        THEN NoSummary
                        ELSE [exists |-> TRUE, lines |-> <<StaleLine>>]

InitInputs ==
    \/ /\ testDir = MissingDir
       /\ predictors = <<>>
    \/ \E s \in Shapes :
          /\ \E m \in [1..s[1] -> [1..s[2] -> Counts]] : testDir = ValidDir(m)
          /\ predictors \in [1..s[2] -> [1..s[1] -> Counts]]

GenomeNames ==
    IF testDir.valid
    THEN {GenomeIds[i] : i \in 1..Len(testDir.rowh)}
    ELSE {GenomeIds[i] : i \in 1..MaxG}

Init ==
    /\ InitInputs
    /\ InitFiles(GenomeNames)
    /\ Fresh
    /\ atStart = Snapshot
    /\ runs = 0

\* the end-to-end scenario of the specification: roles A and B, genomes G1 and G2
ScenarioX == <<<<1, 0>>, <<2, 1>>>>
ScenarioPredictors == <<<<1, 0>>, <<0, 1>>>>

InitScenario ==
    /\ testDir = ValidDir(ScenarioX)
    /\ predictors = ScenarioPredictors
    /\ InitFiles(GenomeNames)
    /\ Fresh
    /\ atStart = Snapshot
    /\ runs = 0

\* the scoring of lines 93-100 alone, on any two matrices of one shape
InitScore ==
    /\ \E s \in Shapes :
          /\ \E m \in [1..s[1] -> [1..s[2] -> 0..MaxScoreCount]] :
                /\ testDir = ValidDir(m)
                /\ X_all = AsArray(m)
          /\ \E p \in [1..s[1] -> [1..s[2] -> 0..MaxScoreCount]] :
                predictions = AsArray(p)
    /\ predictors = <<>>
    /\ genomes = AsArray(testDir.rowh)
    /\ col_names = AsArray(testDir.colh)
    /\ outDirExists = FALSE /\ outFiles = <<>> /\ summaryOut = NoSummary
    /\ pc = "score"
    /\ exitCode = <<>>
    /\ ret = <<>>
    /\ coarse_const = <<>> /\ fine_const = <<>> /\ score_table = <<>>
    /\ n_row = 0 /\ all_summary = <<>>
    /\ atStart = Snapshot
    /\ runs = 0

\* ----- actions ----------------------------------------------------------------------------
\* lines 63-68
CheckTestDir ==
    /\ pc = "check"
    /\ IF ~IsDir(testDir)
       THEN /\ pc' = "exited"
            /\ exitCode' = <<ExitStatus>>
       ELSE /\ pc' = After("check")
            /\ UNCHANGED exitCode
    /\ UNCHANGED <<inputVars, fileVars, loadVars, ret, predictions, scoreVars, loopVars,
                   atStart, runs>>

\* lines 70-79
Load ==
    /\ pc = "load"
    /\ X_all' = Normalize2D(GenFromTxt(testDir.X))
    /\ col_names' = GenFromTxt(testDir.colh)
    /\ genomes' = Normalize2D(GenFromTxt(testDir.rowh))
    /\ pc' = After("load")
    /\ UNCHANGED <<inputVars, fileVars, exitCode, ret, predictions, scoreVars, loopVars,
                   atStart, runs>>

\* run_predictor(n_col) returns, lines 24-47
RunPredictor(n_col) ==
    /\ pc = "parallel"
    /\ n_col \in 0..(NumTasks - 1)
    /\ n_col \notin DOMAIN ret
    /\ NDim(col_names) = 2
    /\ ret' = ret @@ (n_col :> Tagged(predictors[n_col + 1], n_col))
    /\ UNCHANGED <<inputVars, fileVars, pc, exitCode, loadVars, predictions, scoreVars,
                   loopVars, atStart, runs>>

\* run_predictor raises in a task that has not returned: col_names[n_col, 1] on
\* a 1-D col_names, or a classifier or LDA_vars file that cannot be loaded;
\* Parallel re-raises it
PredictorRaises ==
    /\ pc = "parallel"
    /\ \E n_col \in 0..(NumTasks - 1) : n_col \notin DOMAIN ret
    /\ pc' = "crashed"
    /\ exitCode' = <<1>>
    /\ ret' = <<>>
    /\ UNCHANGED <<inputVars, fileVars, loadVars, predictions, scoreVars, loopVars,
                   atStart, runs>>

AllReturned == DOMAIN ret = 0..(NumTasks - 1)

\* line 85: Parallel returns the results in the order of the tasks
Collect ==
    /\ pc = "parallel"
    /\ AllReturned
    /\ predictions' = [k \in 1..NumTasks |-> ret[k - 1]]
    /\ pc' = After("collect")
    /\ UNCHANGED <<inputVars, fileVars, exitCode, loadVars, ret, scoreVars, loopVars,
                   atStart, runs>>

\* line 85, were the results collected in the order the tasks complete
CollectAnyOrder ==
    /\ pc = "parallel"
    /\ AllReturned
    /\ \E order \in [1..NumTasks -> 0..(NumTasks - 1)] :
          /\ \A a, b \in 1..NumTasks : a # b => order[a] # order[b]
          /\ predictions' = [k \in 1..NumTasks |-> ret[order[k]]]
    /\ pc' = After("collect")
    /\ UNCHANGED <<inputVars, fileVars, exitCode, loadVars, ret, scoreVars, loopVars,
                   atStart, runs>>

\* lines 87-91
ReassembleStep ==
    /\ pc = "reassemble"
    /\ predictions' = Reassemble(predictions)
    /\ pc' = After("reassemble")
    /\ UNCHANGED <<inputVars, fileVars, exitCode, loadVars, ret, scoreVars, loopVars,
                   atStart, runs>>

\* lines 93-100
Score ==
    /\ pc = "score"
    /\ coarse_const' = CoarseConst(X_all, predictions)
    /\ fine_const' = FineConst(X_all, predictions)
    /\ score_table' = ScoreTable(genomes, coarse_const', fine_const')
    /\ pc' = After("score")
    /\ UNCHANGED <<inputVars, fileVars, exitCode, loadVars, ret, predictions, loopVars,
                   atStart, runs>>

\* lines 102-105
MkOutDir ==
    /\ pc = "mkdir"
    /\ outDirExists' = TRUE
    /\ all_summary' = <<>>
    /\ n_row' = 0
    /\ pc' = After("mkdir")
    /\ UNCHANGED <<inputVars, outFiles, summaryOut, exitCode, loadVars, ret, predictions,
                   scoreVars, atStart, runs>>

\* lines 106-122, one iteration of the loop over the rows
WriteGenome ==
    /\ pc = "write"
    /\ n_row < X_all.shape[1]
    /\ LET gtoID == At(genomes, n_row, 1)
           coarseNum == Written(coarse_const[n_row + 1], 1)
           fineNum == Written(fine_const[n_row + 1], 1)
           summary == <<HeaderLine("Coarse Consistency: ", coarseNum),
                        HeaderLine("Fine Consistency: ", fineNum)>>
                      \o MismatchLines(X_all, predictions, col_names, n_row, 0)
       IN  /\ all_summary' = Append(all_summary, SummaryLine(gtoID, coarseNum, fineNum))
           /\ outFiles' = [f \in DOMAIN outFiles \cup {gtoID} |->
                              IF f = gtoID
                              THEN AppendMode(Content(outFiles, gtoID), summary)
                              ELSE outFiles[f]]
    /\ n_row' = n_row + 1
    /\ UNCHANGED <<inputVars, outDirExists, summaryOut, pc, exitCode, loadVars, ret,
                   predictions, scoreVars, atStart, runs>>

\* the loop over the rows ends
WriteDone ==
    /\ pc = "write"
    /\ n_row >= X_all.shape[1]
    /\ pc' = After("write")
    /\ UNCHANGED <<inputVars, fileVars, exitCode, loadVars, ret, predictions, scoreVars,
                   loopVars, atStart, runs>>

\* lines 124-125
WriteSummary ==
    /\ pc = "summary"
    /\ summaryOut' = [exists |-> TRUE, lines |-> WriteMode(summaryOut.lines, all_summary)]
    /\ pc' = After("summary")
    /\ exitCode' = <<0>>
    /\ runs' = runs + 1
    /\ UNCHANGED <<inputVars, outDirExists, outFiles, loadVars, ret, predictions,
                   scoreVars, loopVars, atStart>>

Ended == pc \in {"done", "exited", "crashed"}

\* the script is invoked again with the same arguments
NewRun ==
    /\ Ended
    /\ runs < MaxRuns
    /\ pc' = "check"
    /\ exitCode' = <<>>
    /\ X_all' = NoArray /\ col_names' = NoArray /\ genomes' = NoArray
    /\ ret' = <<>>
    /\ predictions' = <<>>
    /\ coarse_const' = <<>> /\ fine_const' = <<>> /\ score_table' = <<>>
    /\ n_row' = 0 /\ all_summary' = <<>>
    /\ atStart' = Snapshot
    /\ UNCHANGED <<inputVars, fileVars, runs>>

Steps ==
    \/ CheckTestDir
    \/ Load
    \/ \E n_col \in 0..(MaxCells - 1) : RunPredictor(n_col)
    \/ PredictorRaises
    \/ ReassembleStep
    \/ Score
    \/ MkOutDir
    \/ WriteGenome
    \/ WriteDone
    \/ WriteSummary
    \/ NewRun

Next == Steps \/ Collect

NextAnyOrder == Steps \/ CollectAnyOrder

NextScore == Score

Spec == Init /\ [][Next]_vars

SpecScenario == InitScenario /\ [][Next]_vars

SpecAnyOrder == Init /\ [][NextAnyOrder]_vars

SpecScore == InitScore /\ [][NextScore]_vars

\* ----- the claims ---------------------------------------------------------------------------
NumGenomes == Len(testDir.rowh)
NumRoles == Len(testDir.colh)

RowOf(g) == (CHOOSE i \in 1..Len(GenomeIds) : GenomeIds[i] = g) - 1

\* the lines the run has added to <g>.out
Appended(g) ==
    SubSeq(Content(outFiles, g), Len(Content(atStart.outFiles, g)) + 1,
           Len(Content(outFiles, g)))

\* the columns of a row where the predicted and the true count differ
MismatchCols(row) ==
    {c \in 0..(NumRoles - 1) : At(predictions, row, c) # At(X_all, row, c)}

\* the k-th smallest column of a set of columns
Kth(cols, k) == CHOOSE c \in cols : Cardinality({d \in cols : d < c}) = k - 1

ExactCoarse(row) ==
    [num |-> 100 * Cardinality({c \in 0..(NumRoles - 1) :
                                  (At(X_all, row, c) > 0) = (At(predictions, row, c) > 0)}),
     den |-> NumRoles]

ExactFine(row) ==
    [num |-> 100 * Cardinality({c \in 0..(NumRoles - 1) :
                                  At(X_all, row, c) = At(predictions, row, c)}),
     den |-> NumRoles]

\* the percentage q has the value v
ValueIs(q, v) == q.num = v * q.den

\* a written number (in hundredths) is the percentage q to within 0.05
IsPctOf(written, q) ==
    LET d == written * q.den - 100 * q.num IN -5 * q.den <= d /\ d <= 5 * q.den

\* the block of a row: the two headers, then one line for each mismatching column
ClaimedBlock(row) ==
    <<[text |-> "Coarse Consistency: ", num |-> Written(coarse_const[row + 1], 1)],
      [text |-> "Fine Consistency: ", num |-> Written(fine_const[row + 1], 1)]>>
    \o [k \in 1..Cardinality(MismatchCols(row)) |->
          LET c == Kth(MismatchCols(row), k)
          IN  [role |-> RoleIds[c + 1], pred |-> At(predictions, row, c),
               real |-> At(X_all, row, c)]]

\* C1 as stated: in the end-to-end scenario the run computes coarse = [100.0, 0.0]
\* and fine = [100.0, 0.0], and the block added to G2.out has a mismatch line for
\* role B with predicted 0 and actual 1.
C1_AsStated ==
    pc = "done" =>
        /\ ValueIs(coarse_const[1], 100) /\ ValueIs(coarse_const[2], 0)
        /\ ValueIs(fine_const[1], 100) /\ ValueIs(fine_const[2], 0)
        /\ \E k \in 1..Len(Appended("G2")) :
              Appended("G2")[k] = [role |-> "B", pred |-> 0, real |-> 1]

\* C1, amended: in the end-to-end scenario the run computes coarse = [100.0, 50.0]
\* and fine = [100.0, 50.0]; the block added to G2.out is the two headers (50.0 and
\* 50.0) and one mismatch line, for role A, with predicted 0 and actual 2; the
\* block added to G1.out has no mismatch line.
C1_Scenario ==
    pc = "done" =>
        /\ ValueIs(coarse_const[1], 100) /\ ValueIs(coarse_const[2], 50)
        /\ ValueIs(fine_const[1], 100) /\ ValueIs(fine_const[2], 50)
        /\ Appended("G2") = <<[text |-> "Coarse Consistency: ", num |-> 5000],
                              [text |-> "Fine Consistency: ", num |-> 5000],
                              [role |-> "A", pred |-> 0, real |-> 2]>>
        /\ Appended("G1") = <<[text |-> "Coarse Consistency: ", num |-> 10000],
                              [text |-> "Fine Consistency: ", num |-> 10000]>>

\* a run of the scenario has ended successfully, for the second time, on files
\* that held completeness data before the first run
C1_Witness ==
    /\ pc = "done" /\ runs = 2
    /\ testDir.X = ScenarioX /\ predictors = ScenarioPredictors
    /\ Head(outFiles["G2"]) = PriorLine

\* C2: append without truncation: when a run has ended successfully, every
\* <g>.out of a genome g of the matrix holds exactly what it held when the run
\* began followed by the new block for g; an earlier run's block is part of what
\* the file held, so k runs leave k blocks after the prior content.
C2_AppendOnly ==
    pc = "done" =>
        /\ \A g \in GenomeNames :
              /\ g \in DOMAIN outFiles
              /\ outFiles[g] = Content(atStart.outFiles, g) \o ClaimedBlock(RowOf(g))
        /\ \A f \in DOMAIN outFiles \ GenomeNames :
              f \in DOMAIN atStart.outFiles /\ outFiles[f] = atStart.outFiles[f]

\* the second successful run has ended on a file that began with completeness
\* data: it holds that line, the first run's block and the second run's block
C2_Witness ==
    /\ pc = "done" /\ runs = 2
    /\ "G1" \in DOMAIN outFiles
    /\ Head(outFiles["G1"]) = PriorLine
    /\ Len(atStart.outFiles["G1"]) >= 3
    /\ Len(outFiles["G1"]) > Len(atStart.outFiles["G1"])

\* C3: with a testDir that is no directory the run ends with exit code -1 right
\* after the check: nothing has been loaded, no predictor task has run, and
\* outDir, every <genomeID>.out and summary.out are as they were.
C3_MissingTestDir ==
    ~testDir.valid =>
        /\ pc \in {"check", "exited"}
        /\ pc = "exited" => exitCode = <<-1>>
        /\ ret = <<>> /\ X_all = NoArray
        /\ Snapshot = atStart
        /\ ~summaryOut.exists

\* the run has exited on a missing testDir and there is still no outDir
C3_Witness == ~testDir.valid /\ pc = "exited" /\ ~outDirExists

\* C4: whenever the content of a genome's file changes, it grows by a block made
\* of the coarse header, the fine header and then exactly one line for each role
\* whose predicted count differs from the true count, in ascending column order,
\* each with the role id, the predicted count and the true count; the block has
\* no mismatch line exactly when the fine consistency of the row is 100.
C4_BlockContent ==
    [][\A g \in GenomeNames :
          LET old == Content(outFiles, g)
              new == Content(outFiles', g)
              block == SubSeq(new, Len(old) + 1, Len(new))
              row == RowOf(g)
              mis == MismatchCols(row)
          IN  new # old =>
                /\ Len(new) = Len(old) + 2 + Cardinality(mis)
                /\ SubSeq(new, 1, Len(old)) = old
                /\ block[1].text = "Coarse Consistency: "
                /\ block[2].text = "Fine Consistency: "
                /\ \A k \in 1..Cardinality(mis) :
                      LET c == Kth(mis, k)
                      IN  block[2 + k] = [role |-> RoleIds[c + 1],
                                          pred |-> At(predictions, row, c),
                                          real |-> At(X_all, row, c)]
                /\ (Len(block) = 2) <=> ValueIs(ExactFine(row), 100)]_vars

\* a run has ended after adding a block with two mismatch lines to one file and
\* a block with none to another
C4_Witness ==
    /\ pc = "done"
    /\ \E g \in GenomeNames : Len(Appended(g)) >= 4
    /\ \E g \in GenomeNames : Len(Appended(g)) = 2

\* C5: summary.out is overwritten: when a run has ended successfully, summary.out
\* holds exactly one line per genome row of that run, in row order, each with
\* the genome id and the coarse and fine percentages of the row, and nothing else.
C5_SummaryOverwritten ==
    pc = "done" =>
        /\ summaryOut.exists
        /\ Len(summaryOut.lines) = NumGenomes
        /\ \A i \in 1..NumGenomes :
              /\ summaryOut.lines[i].id = GenomeIds[i]
              /\ IsPctOf(summaryOut.lines[i].coarse, ExactCoarse(i - 1))
              /\ IsPctOf(summaryOut.lines[i].fine, ExactFine(i - 1))

\* a successful run has ended that began with a summary.out of an earlier run
\* of two genomes
C5_Witness ==
    /\ pc = "done" /\ runs = 2
    /\ atStart.summaryOut.exists
    /\ Len(atStart.summaryOut.lines) = 2
    /\ atStart.summaryOut.lines[1] # StaleLine

C7_ScoreBounds ==
    pc = "mkdir" =>
        \A i \in 1..NumGenomes :
            /\ coarse_const[i] = ExactCoarse(i - 1)
            /\ fine_const[i] = ExactFine(i - 1)
            /\ coarse_const[i].den = NumRoles /\ fine_const[i].den = NumRoles
            /\ 0 <= fine_const[i].num
            /\ fine_const[i].num <= coarse_const[i].num
            /\ coarse_const[i].num <= 100 * NumRoles

\* a row has been scored with 0 < fine < coarse < 100
C7_Witness ==
    /\ pc = "mkdir"
    /\ \E i \in 1..NumGenomes :
          /\ 0 < fine_const[i].num
          /\ fine_const[i].num < coarse_const[i].num
          /\ coarse_const[i].num < 100 * NumRoles

\* C8 as stated: whatever the order of the tagged results in the list, after the
\* reassembly column c of the prediction matrix holds the values of the
\* predictor of column c.
C8_AsStated ==
    pc = "score" =>
        \A c \in 0..(NumRoles - 1) : \A g \in 0..(NumGenomes - 1) :
            At(predictions, g, c) = predictors[c + 1][g + 1]

\* C9: outDir, the <genomeID>.out files and summary.out differ from what they
\* were when the run began only once every predictor task has returned and the
\* run is past the scoring; a run in which a task failed has ended in an error
\* with all of them as they were.
C9_NoWriteBeforeParallelDone ==
    /\ Snapshot # atStart =>
          /\ pc \in {"write", "summary", "done"}
          /\ DOMAIN ret = 0..(NumRoles - 1)
    /\ pc = "crashed" => Snapshot = atStart /\ exitCode = <<1>>

\* a task has failed in a run on files that an earlier successful run wrote
C9_Witness ==
    /\ pc = "crashed" /\ runs = 1
    /\ outDirExists /\ summaryOut.exists

\* C10 as stated: once loaded and normalised, X has as many rows as row.h has
\* lines and as many columns as col.h has lines.
C10_AsStated ==
    (testDir.valid /\ pc \notin {"check", "load"}) =>
        X_all.shape = <<NumGenomes, NumRoles>>

====
